---- MODULE Spec2Model ----
(***************************************************************************)
(* Model of the transaction ingress / relay core of the mempool component  *)
(* (src/src/mempool/mempoolcomponent_net.cpp): the recent-rejects filter,  *)
(* the relay cache, the orphan pool hooks, DoesTxExist, NetReceiveTxData,  *)
(* NetRequestTxData, NetRequestTxInventory and the two orphan eviction     *)
(* hooks.  Every handler is one atomic action (all of them run under       *)
(* cs_main); the specification SpecOnTx also follows an admitted call of   *)
(* NetReceiveTxData through the iterations of its work-queue loop.         *)
(***************************************************************************)
EXTENDS Integers, Sequences, FiniteSets, TLC

(***************************************************************************)
(* The transactions the peers can deliver.  A transaction is identified by *)
(* its txid; its inputs, outputs, witness and the verdict of the script /  *)
(* policy checks are fixed properties of its bytes.                        *)
(*   A : root, valid, two outputs                                          *)
(*   B : spends A:0, valid, two outputs                                    *)
(*   C : spends B:0 and B:1, valid                                         *)
(*   Q : spends A:1, invalid with DoS 10                                   *)
(*   R : spends A:1, invalid with DoS 10, corruption possible              *)
(*   W : spends Q:0, carries a witness                                     *)
(*   N : root, invalid with DoS 0 (policy failure)                         *)
(***************************************************************************)
TxIds == {"A", "B", "C", "Q", "R", "W", "N"}

Vin(t) ==
    CASE t = "B" -> {<<"A", 0>>}
      [] t = "C" -> {<<"B", 0>>, <<"B", 1>>}
      [] t = "Q" -> {<<"A", 1>>}
      [] t = "R" -> {<<"A", 1>>}
      [] t = "W" -> {<<"Q", 0>>}
      [] OTHER -> {}

NVout(t) == IF t \in {"A", "B"} THEN 2 ELSE 1

HasWitness(t) == t = "W"

\* the verdict of the checks that follow the input lookup
Verdict(t) ==
    CASE t \in {"Q", "R"} -> [invalid |-> TRUE, nDoS |-> 10, corruption |-> (t = "R"), code |-> 16]
      [] t = "N" -> [invalid |-> TRUE, nDoS |-> 0, corruption |-> FALSE, code |-> 64]
      [] OTHER -> [invalid |-> FALSE, nDoS |-> 0, corruption |-> FALSE, code |-> 0]

\* fee rate (per kB) and position of the txid in the hash order
FeeRate(t) == CASE t = "A" -> 2 [] t = "B" -> 1 [] t = "C" -> 3 [] OTHER -> 1

HashRank(t) ==
    CASE t = "A" -> 1 [] t = "B" -> 2 [] t = "C" -> 3 [] t = "Q" -> 4
      [] t = "R" -> 5 [] t = "W" -> 6 [] OTHER -> 7

Peers == {"p1", "p2"}

\* Block hashes the active chain can have as its tip, and the transactions
\* of the universe that are confirmed in the chain ending there.
Tips == {"h0", "h1"}
NullHash == "null"
Confirmed(tip) == IF tip = "h1" THEN {"A"} ELSE {}

\* -maxorphantx as configured
MaxOrphanTx == 2

REJECT_INTERNAL == 256

\* the size of an INV message and the relay cap of one round, scaled down
MAX_INV_SZ == 2
INVENTORY_BROADCAST_MAX == 2

\* how far the clock runs past a relay lifetime, in microseconds
MaxSkew == 1

VARIABLES
    mempool,                    \* txid -> nTime of the entries of the mempool
    mapOrphanTransactions,      \* txid -> fromPeer of the orphans of orphanTxMgr
    recentRejects,              \* the txids the rolling filter holds
    hashRecentRejectsChainTip,  \* the tip the filter was last reset at
    chainTip,                   \* chainActive.Tip()->GetBlockHash()
    mapRelay,                   \* txid -> transaction of the relay map
    vRelayExpiration,           \* queue of <<expire time, txid of the map entry>>
    now,                        \* the clock, in microseconds
    fTipChanged,                \* history: the tip changed and DoesTxExist has not run since
    call                        \* where a call of NetReceiveTxData is in its work-queue loop

vars == <<mempool, mapOrphanTransactions, recentRejects,
          hashRecentRejectsChainTip, chainTip, mapRelay, vRelayExpiration,
          now, fTipChanged, call>>

\* the component's state as one value, so that a handler is a function of it
State ==
    [mp |-> mempool, orph |-> mapOrphanTransactions, rej |-> recentRejects,
     recTip |-> hashRecentRejectsChainTip, tip |-> chainTip, relay |-> mapRelay,
     queue |-> vRelayExpiration, now |-> now]

Becomes(s) ==
    /\ mempool' = s.mp
    /\ mapOrphanTransactions' = s.orph
    /\ recentRejects' = s.rej
    /\ hashRecentRejectsChainTip' = s.recTip
    /\ chainTip' = s.tip
    /\ mapRelay' = s.relay
    /\ vRelayExpiration' = s.queue
    /\ now' = s.now
    /\ call' = call

\* ---------------------------------------------------------------- helpers

SeqToSet(q) == {q[i] : i \in 1..Len(q)}

Min(a, b) == IF a < b THEN a ELSE b

\* every order in which the elements of S can be met
Perms(S) ==
    {q \in [1..Cardinality(S) -> S] :
        \A i, j \in 1..Cardinality(S) : i # j => q[i] # q[j]}

Outputs(t) == [i \in 1..NVout(t) |-> <<t, i - 1>>]

Restrict(f, S) == [x \in S |-> f[x]]

\* GetTime(): the clock in seconds
GetTime(t) == t \div 1000000

\* ------------------------------------------------- external collaborators

\* CCoinsViewCache::HaveCoinInCache
HaveCoinInCache(tip, op) ==
    /\ op[1] \in Confirmed(tip)
    /\ op[2] < NVout(op[1])
    /\ ~\E c \in Confirmed(tip) : op \in Vin(c)

\* CTxMemPool::AcceptToMemoryPool: the validation state it leaves and
\* whether it set fMissingInputs
AcceptToMemoryPool(mp, tip, t) ==
    IF t \in DOMAIN mp \/ t \in Confirmed(tip)
    THEN [ok |-> FALSE, missing |-> FALSE, invalid |-> TRUE, nDoS |-> 0,
          corruption |-> FALSE, code |-> 18]
    ELSE IF \E op \in Vin(t) : ~(op[1] \in DOMAIN mp \/ HaveCoinInCache(tip, op))
    THEN [ok |-> FALSE, missing |-> TRUE, invalid |-> FALSE, nDoS |-> 0,
          corruption |-> FALSE, code |-> 0]
    ELSE [ok |-> ~Verdict(t).invalid, missing |-> FALSE,
          invalid |-> Verdict(t).invalid, nDoS |-> Verdict(t).nDoS,
          corruption |-> Verdict(t).corruption, code |-> Verdict(t).code]

\* a default-constructed CValidationState
ValidState ==
    [ok |-> FALSE, missing |-> FALSE, invalid |-> FALSE, nDoS |-> 0,
     corruption |-> FALSE, code |-> 0]

\* orphanTxMgr.FindOrphanTransactionsByPrev: the orphans that spend op, in
\* the order ord in which the manager's set hands them out
FindOrphanTransactionsByPrev(orph, ord, op) ==
    SelectSeq(ord, LAMBDA o : o \in DOMAIN orph /\ op \in Vin(o))

\* orphanTxMgr.EraseOrphanTx for every hash of a set
EraseOrphans(orph, hashes) == Restrict(orph, DOMAIN orph \ hashes)

\* orphanTxMgr.AddOrphanTx
AddOrphanTx(orph, t, peer) == IF t \in DOMAIN orph THEN orph ELSE (t :> peer) @@ orph

\* orphanTxMgr.LimitOrphanTxSize: the pools random eviction can leave
LimitOrphanTxSize(orph, nMaxOrphans) ==
    {Restrict(orph, X) : X \in {Y \in SUBSET DOMAIN orph :
        Cardinality(Y) = Min(Cardinality(DOMAIN orph), nMaxOrphans)}}

\* ------------------------------------------------------------ DoesTxExist

\* the tip is recorded and the filter is kept
RecordTipOnly(s) == [s EXCEPT !.recTip = s.tip]

\* lines 71-86: the rejects filter after the tip check
FilterAfterTipCheck(s) ==
    IF s.tip # s.recTip THEN [s EXCEPT !.recTip = s.tip, !.rej = {}] ELSE s

\* lines 68-96: the answer, and the state the call leaves
DoesTxExistRes(s, txHash) ==
    [s |-> FilterAfterTipCheck(s),
     ret |-> \/ (s.tip = s.recTip /\ txHash \in s.rej)
             \/ txHash \in DOMAIN s.mp
             \/ txHash \in DOMAIN s.orph
             \/ HaveCoinInCache(s.tip, <<txHash, 0>>)
             \/ HaveCoinInCache(s.tip, <<txHash, 1>>)]

\* ------------------------------------------------------- NetReceiveTxData

\* the early return whenever the peer does not relay
ViolatesProtocolRelayOnly(flags, args) == ~flags.relaytx

\* lines 127-129: the early return of blocks-only mode
ViolatesProtocol(flags, args) ==
    ~flags.relaytx /\ (~flags.whitelist \/ ~args.whitelistrelay)

\* lines 226-233 and 288-294: the rejects filter after a transaction that
\* has its inputs was not accepted
InsertIfNotMalleable(rej, t, st) ==
    IF ~HasWitness(t) /\ ~st.corruption THEN rej \cup {t} ELSE rej

\* the work queue when the outputs of an accepted orphan are not queued
EnqueueNothing(vWorkQueue, o) == vWorkQueue

\* accepted orphans queue their outputs twice
EnqueueOutputsAgain(vWorkQueue, o) == vWorkQueue \o Outputs(o) \o Outputs(o)

\* lines 208-211: the outputs of an accepted orphan are queued
EnqueueOutputs(vWorkQueue, o) == vWorkQueue \o Outputs(o)

\* lines 200-235: an orphan is validated.  log keeps what was done, in order.
ValidateOrphan(ls, o) ==
    LET fromPeer == ls.orph[o]
        st == AcceptToMemoryPool(ls.mp, ls.tip, o)
        punish == st.invalid /\ st.nDoS > 0
        validated == Append(ls.log, [ev |-> "validate", tx |-> o, peer |-> fromPeer])
    IN  IF st.ok
        THEN [ls EXCEPT !.mp = (o :> ls.time) @@ @,
                        !.bc = Append(@, o),
                        !.vWorkQueue = EnqueueOutputs(@, o),
                        !.vEraseQueue = Append(@, o),
                        !.log = validated]
        ELSE IF ~st.missing
        THEN [ls EXCEPT !.mis = IF punish THEN Append(@, <<fromPeer, st.nDoS>>) ELSE @,
                        !.setMisbehaving = IF punish THEN @ \cup {fromPeer} ELSE @,
                        !.vEraseQueue = Append(@, o),
                        !.rej = InsertIfNotMalleable(@, o, st),
                        !.rejIns = InsertIfNotMalleable(@, o, st),
                        !.corrupt = IF st.corruption THEN @ \cup {o} ELSE @,
                        !.log = IF punish
                                THEN Append(validated, [ev |-> "misbehave", tx |-> o,
                                                        peer |-> fromPeer])
                                ELSE validated]
        ELSE [ls EXCEPT !.log = validated]

\* the loop body without the check of setMisbehaving
ProcessOrphanUnfair(ls, o) == ValidateOrphan(ls, o)

\* lines 187-235: one orphan met under the outpoint taken from the work queue
ProcessOrphan(ls, o) ==
    IF ls.orph[o] \in ls.setMisbehaving
    THEN [ls EXCEPT !.log = Append(@, [ev |-> "skip", tx |-> o, peer |-> ls.orph[o]])]
    ELSE ValidateOrphan(ls, o)

\* lines 183-236: the orphans found under one outpoint, in iteration order
RECURSIVE ForEachOrphan(_, _)
ForEachOrphan(ls, kids) ==
    IF kids = <<>> THEN ls
    ELSE ForEachOrphan(ProcessOrphan(ls, Head(kids)), Tail(kids))

\* lines 178-236: one iteration of the while loop: the front outpoint is
\* looked up and popped, the orphans found under it are processed
WorkQueueStep(ls) ==
    ForEachOrphan([ls EXCEPT !.vWorkQueue = Tail(@)],
                  FindOrphanTransactionsByPrev(ls.orph, ls.ord, Head(ls.vWorkQueue)))

\* lines 176-237: the work queue is processed until it is empty
RECURSIVE ProcessWorkQueue(_)
ProcessWorkQueue(ls) ==
    IF ls.vWorkQueue = <<>> THEN ls
    ELSE ProcessWorkQueue(WorkQueueStep(ls))

\* no parent is ever found in the filter
NoRejectedParents(rej, t) == FALSE

\* lines 243-251
RejectedParents(rej, t) == \E op \in Vin(t) : op[1] \in rej

\* lines 255-258
FetchFlags(flags) == IF flags.localWitness /\ flags.witness THEN "witness" ELSE "none"

\* the orphan is added and the pool is not limited
ParkOrphanUnlimited(orph, t, peer) == {AddOrphanTx(orph, t, peer)}

\* lines 268-274: the pools the orphan manager can be left with
ParkOrphan(orph, t, peer) == LimitOrphanTxSize(AddOrphanTx(orph, t, peer), MaxOrphanTx)

\* the forced relay without the test of the DoS score
ForceRelayRegardless(flags, args, st, t) ==
    IF flags.whitelist /\ args.whitelistforcerelay THEN <<t>> ELSE <<>>

\* lines 304-327: the forced relay for a whitelisted peer
ForceRelay(flags, args, st, t) ==
    IF flags.whitelist /\ args.whitelistforcerelay /\ (~st.invalid \/ st.nDoS = 0)
    THEN <<t>> ELSE <<>>

\* the report without the test of IsInvalid and of a positive code
RejectAnyState(st) == st.code < REJECT_INTERNAL

\* lines 333-354: the report to the peer
RejectSent(st) == st.invalid /\ st.code > 0 /\ st.code < REJECT_INTERNAL
Misbehavior(st) == IF st.invalid /\ st.nDoS > 0 THEN st.nDoS ELSE 0

\* what a call reports when it does nothing
NoEffect(s) ==
    [s |-> s, pools |-> {s.orph}, gated |-> FALSE, accepted |-> FALSE,
     missing |-> FALSE, parked |-> FALSE, bc |-> <<>>, mis |-> <<>>, log |-> <<>>,
     rejIns |-> {}, corrupt |-> {}, known |-> {}, asked |-> {}, newTx |-> FALSE,
     reject |-> FALSE, nMisbehavior |-> 0, vEraseQueue |-> <<>>, ret |-> TRUE]

\* lines 155-175: the locals of the handler when the loop is entered
LoopStart(s1, tx, ord) ==
    [mp |-> (tx :> GetTime(s1.now)) @@ s1.mp, orph |-> s1.orph,
     rej |-> s1.rej, tip |-> s1.tip, time |-> GetTime(s1.now),
     ord |-> ord, vWorkQueue |-> Outputs(tx), vEraseQueue |-> <<>>,
     setMisbehaving |-> {}, bc |-> <<tx>>, mis |-> <<>>,
     log |-> <<>>, rejIns |-> {}, corrupt |-> {}]

\* lines 154-240: the transaction was accepted
AcceptedBranch(s1, tx, ord) ==
    LET ls == ProcessWorkQueue(LoopStart(s1, tx, ord))
        orph2 == EraseOrphans(s1.orph, SeqToSet(ls.vEraseQueue))
    IN  [NoEffect(s1) EXCEPT
            !.s = [s1 EXCEPT !.mp = ls.mp, !.rej = ls.rej, !.orph = orph2],
            !.pools = {orph2}, !.accepted = TRUE, !.newTx = TRUE,
            !.bc = ls.bc, !.mis = ls.mis, !.log = ls.log, !.rejIns = ls.rejIns,
            !.corrupt = ls.corrupt, !.vEraseQueue = ls.vEraseQueue]

\* lines 241-285: the validator reported missing inputs
MissingInputsBranch(s1, peer, flags, tx) ==
    IF ~RejectedParents(s1.rej, tx)
    THEN [NoEffect(s1) EXCEPT
            !.missing = TRUE, !.parked = TRUE,
            !.known = {<<op[1], FetchFlags(flags)>> : op \in Vin(tx)},
            !.asked = {<<op[1], FetchFlags(flags)>> : op \in
                        {x \in Vin(tx) : ~DoesTxExistRes(s1, x[1]).ret}},
            !.pools = ParkOrphan(s1.orph, tx, peer)]
    ELSE [NoEffect(s1) EXCEPT
            !.missing = TRUE, !.s = [s1 EXCEPT !.rej = @ \cup {tx}],
            !.rejIns = {tx}]

\* lines 286-328: not accepted and no missing inputs (invalid, or known)
NotAcceptedBranch(s1, flags, args, tx, st) ==
    [NoEffect(s1) EXCEPT
        !.s = [s1 EXCEPT !.rej = InsertIfNotMalleable(@, tx, st)],
        !.rejIns = InsertIfNotMalleable({}, tx, st),
        !.corrupt = IF st.corruption THEN {tx} ELSE {},
        !.bc = ForceRelay(flags, args, st, tx)]

\* the state reported were the one left by the last punished orphan
ReportedStateOfOrphans(st, mis) ==
    IF mis = <<>> THEN st
    ELSE [st EXCEPT !.invalid = TRUE, !.nDoS = mis[Len(mis)][2], !.code = 16]

\* lines 195 and 333-354: orphans are validated with stateDummy, so the
\* state reported to the peer is the one of the delivered transaction
ReportedState(st, mis) == st

\* lines 121-356: what the handler does from state s.  ord is the order in
\* which the orphan manager's sets hand out the orphans; the state left is
\* r.s with any of r.pools as its orphan pool.
NetReceiveTxDataRes(s, peer, flags, args, tx, ord) ==
    IF ViolatesProtocol(flags, args)
    THEN [NoEffect(s) EXCEPT !.gated = TRUE]
    ELSE LET ex == DoesTxExistRes(s, tx)
             st == IF ex.ret THEN ValidState
                   ELSE AcceptToMemoryPool(s.mp, s.tip, tx)
             r == IF st.ok THEN AcceptedBranch(ex.s, tx, ord)
                  ELSE IF st.missing THEN MissingInputsBranch(ex.s, peer, flags, tx)
                  ELSE NotAcceptedBranch(ex.s, flags, args, tx, st)
             fin == ReportedState(st, r.mis)
         IN  [r EXCEPT !.reject = RejectSent(fin), !.nMisbehavior = Misbehavior(fin)]

\* the state a call leaves when the orphan manager kept pool
Left(r, pool) == [r.s EXCEPT !.orph = pool]

PeerFlags == [relaytx : BOOLEAN, whitelist : BOOLEAN, witness : BOOLEAN,
              localWitness : BOOLEAN]
Args == [whitelistrelay : BOOLEAN, whitelistforcerelay : BOOLEAN]

NetReceiveTxData(peer, flags, args, tx, ord) ==
    LET r == NetReceiveTxDataRes(State, peer, flags, args, tx, ord)
    IN  \E pool \in r.pools :
          /\ Becomes(Left(r, pool))
          /\ fTipChanged' = (fTipChanged /\ r.gated)

\* --------------------------------------------------------- other handlers

\* lines 68-96, called by the net layer for an announced txid
DoesTxExist(txHash) ==
    /\ Becomes(DoesTxExistRes(State, txHash).s)
    /\ fTipChanged' = FALSE

\* lines 464-467
RemoveOrphanTxForNodeRes(s, nodeId) ==
    LET gone == {o \in DOMAIN s.orph : s.orph[o] = nodeId}
    IN  [s |-> [s EXCEPT !.orph = EraseOrphans(@, gone)],
         ret |-> Cardinality(gone) > 0]

RemoveOrphanTxForNode(nodeId) ==
    /\ Becomes(RemoveOrphanTxForNodeRes(State, nodeId).s)
    /\ UNCHANGED fTipChanged

\* the blocks handed to RemoveOrphanTxForBlock: a null pointer or the
\* transactions of a block
NullBlock == {"nullptr"}
Blocks == {NullBlock} \cup SUBSET {"A", "B", "C"}

\* only the orphans that are in the block themselves
OrphansInBlock(orph, pblock) == DOMAIN orph \cap pblock

\* lines 474-493
OrphansToErase(orph, pblock) ==
    {o \in DOMAIN orph : \E t \in pblock : Vin(t) \cap Vin(o) # {}}

\* lines 469-508
RemoveOrphanTxForBlockRes(s, pblock) ==
    LET vOrphanErase == IF pblock = NullBlock THEN {}
                        ELSE OrphansToErase(s.orph, pblock)
    IN  [s |-> [s EXCEPT !.orph = EraseOrphans(@, vOrphanErase)],
         erased |-> vOrphanErase,
         ret |-> vOrphanErase # {}]

RemoveOrphanTxForBlock(pblock) ==
    /\ Becomes(RemoveOrphanTxForBlockRes(State, pblock).s)
    /\ UNCHANGED fTipChanged

\* ------------------------------------------------------------------ egress

\* 15 * 60 * 1000000 microseconds (line 442)
RelayTTL == 15 * 60 * 1000000

\* CTxMemPool::GetCountWithAncestors of an entry
RECURSIVE Ancestors(_, _)
Ancestors(mp, S) ==
    LET more == {p \in DOMAIN mp : \E c \in S : \E op \in Vin(c) : op[1] = p} \ S
    IN  IF more = {} THEN S ELSE Ancestors(mp, S \cup more)
CountWithAncestors(mp, t) == Cardinality(Ancestors(mp, {t}))

\* CTxMemPool::CompareDepthAndScore(a, b): a is to be sent before b
CompareDepthAndScore(mp, a, b) ==
    IF a \notin DOMAIN mp THEN FALSE
    ELSE IF b \notin DOMAIN mp THEN TRUE
    ELSE IF CountWithAncestors(mp, a) = CountWithAncestors(mp, b)
    THEN IF FeeRate(a) = FeeRate(b) THEN HashRank(b) < HashRank(a)
         ELSE FeeRate(a) > FeeRate(b)
    ELSE CountWithAncestors(mp, a) < CountWithAncestors(mp, b)

\* the element a heap built with the comparator itself would hand out: one
\* that is to be sent before no other
HeapBottom(mp, toSend) ==
    CHOOSE t \in toSend : \A u \in toSend : ~CompareDepthAndScore(mp, t, u)

\* lines 410-423: the element pop_heap moves to the back: one that no other
\* is to be sent before
HeapTop(mp, toSend) ==
    CHOOSE t \in toSend : \A u \in toSend : ~CompareDepthAndScore(mp, u, t)

\* CTxMemPool::infoAll: the entries sorted by depth and score
RECURSIVE SortedDepthAndScore(_, _)
SortedDepthAndScore(mp, S) ==
    IF S = {} THEN <<>>
    ELSE <<HeapTop(mp, S)>> \o SortedDepthAndScore(mp, S \ {HeapTop(mp, S)})
InfoAll(mp) == SortedDepthAndScore(mp, DOMAIN mp)

\* the peer's bloom filter: none, or the transactions it finds relevant
NoFilter == {"nullptr"}
IsRelevantAndUpdate(txFilter, t) == t \in txFilter
PassesFilters(minFeeFilter, txFilter, t) ==
    /\ ~(FeeRate(t) < minFeeFilter)
    /\ (txFilter # NoFilter => IsRelevantAndUpdate(txFilter, t))

\* an entry is added to vInv, which is never sent before the end
PushInvNoFlush(es, hash) == [es EXCEPT !.vInv = Append(@, hash)]

\* lines 388-393 and 445-452: an entry is added to vInv, which is sent and
\* cleared when it is full
PushInv(es, hash) ==
    IF Len(es.vInv) + 1 = MAX_INV_SZ
    THEN [es EXCEPT !.sent = Append(@, Append(es.vInv, hash)), !.vInv = <<>>]
    ELSE [es EXCEPT !.vInv = Append(@, hash)]

\* lines 371-394: the mempool dump
RECURSIVE MempoolDump(_, _, _, _)
MempoolDump(es, vtxinfo, minFeeFilter, txFilter) ==
    IF vtxinfo = <<>> THEN es
    ELSE LET hash == Head(vtxinfo)
             es1 == [es EXCEPT !.toSend = @ \ {hash}]
             es2 == IF PassesFilters(minFeeFilter, txFilter, hash)
                    THEN PushInv([es1 EXCEPT !.haveSent = Append(@, hash)], hash)
                    ELSE es1
         IN  MempoolDump(es2, Tail(vtxinfo), minFeeFilter, txFilter)

\* nothing is expired
ExpireNothing(relay, queue, nNow) == [relay |-> relay, queue |-> queue]

\* lines 402-406: old relay entries are expired
RECURSIVE ExpireRelay(_, _, _)
ExpireRelay(relay, queue, nNow) ==
    IF queue # <<>> /\ Head(queue)[1] < nNow
    THEN ExpireRelay(Restrict(relay, DOMAIN relay \ {Head(queue)[2]}), Tail(queue), nNow)
    ELSE [relay |-> relay, queue |-> queue]

\* the queue gets an entry for every publication
PublishRelayAlways(es, hash, nNow) ==
    [es EXCEPT !.relay = (hash :> hash) @@ @,
               !.queue = Append(@, <<nNow + RelayTTL, hash>>)]

\* nothing is published
PublishNothing(es, hash, nNow) == es

\* lines 439-443: the transaction is put into the relay map
PublishRelay(es, hash, nNow) ==
    IF hash \in DOMAIN es.relay THEN es
    ELSE [es EXCEPT !.relay = (hash :> hash) @@ @,
                    !.queue = Append(@, <<nNow + RelayTTL, hash>>)]

\* the drain goes on while anything is pending
DrainUntilEmpty(es) == es.toSend # {}

\* line 418: the condition of the drain loop
DrainGoesOn(es) ==
    es.toSend # {} /\ es.nRelayedTransactions < INVENTORY_BROADCAST_MAX

\* lines 418-453: the pending transactions are drained
RECURSIVE Drain(_, _, _, _, _)
Drain(es, mp, minFeeFilter, txFilter, nNow) ==
    IF ~DrainGoesOn(es) THEN es
    ELSE LET hash == HeapTop(mp, es.toSend)
             es1 == [es EXCEPT !.toSend = @ \ {hash}, !.popped = Append(@, hash)]
             es2 == IF hash \in DOMAIN mp /\ PassesFilters(minFeeFilter, txFilter, hash)
                    THEN PushInv(
                           PublishRelay(
                             [es1 EXCEPT !.haveSent = Append(@, hash),
                                         !.drained = Append(@, hash),
                                         !.nRelayedTransactions = @ + 1],
                             hash, nNow),
                           hash)
                    ELSE es1
         IN  Drain(es2, mp, minFeeFilter, txFilter, nNow)

\* lines 358-462: toSend is the caller's pending set; the result holds the
\* state left, what is left of toSend, what was appended to haveSent and
\* the INV messages sent
NetRequestTxInventoryRes(s, sendMempool, minFeeFilter, txFilter, toSend) ==
    LET es0 == [toSend |-> toSend, haveSent |-> <<>>, vInv |-> <<>>, sent |-> <<>>,
                relay |-> s.relay, queue |-> s.queue, nRelayedTransactions |-> 0,
                popped |-> <<>>, drained |-> <<>>, expired |-> FALSE]
        es1 == IF sendMempool
               THEN MempoolDump(es0, InfoAll(s.mp), minFeeFilter, txFilter)
               ELSE es0
        ex == ExpireRelay(es1.relay, es1.queue, s.now)
        es2 == IF es1.toSend # {}
               THEN Drain([es1 EXCEPT !.relay = ex.relay, !.queue = ex.queue,
                                      !.expired = TRUE],
                          s.mp, minFeeFilter, txFilter, s.now)
               ELSE es1
        es3 == IF es2.vInv # <<>>
               THEN [es2 EXCEPT !.sent = Append(@, es2.vInv), !.vInv = <<>>]
               ELSE es2
    IN  [s |-> [s EXCEPT !.relay = es3.relay, !.queue = es3.queue],
         afterExpire |-> ex,
         expired |-> es3.expired,
         toSend |-> es3.toSend, haveSent |-> es3.haveSent, sent |-> es3.sent,
         dumped |-> es1.haveSent, popped |-> es3.popped, drained |-> es3.drained,
         ret |-> TRUE]

\* every mempool entry may be served
NoTimeGate(nTime, timeLastMempoolReq) == TRUE

\* line 112: the entry was in the mempool at the peer's last mempool request
TimeGate(nTime, timeLastMempoolReq) == nTime <= timeLastMempoolReq

\* lines 98-119: the answer and the TX message sent, if any
NetRequestTxDataRes(s, txHash, witness, timeLastMempoolReq) ==
    IF txHash \in DOMAIN s.relay
    THEN [ret |-> TRUE, sent |-> <<[tx |-> s.relay[txHash], witness |-> witness]>>]
    ELSE IF txHash \in DOMAIN s.mp /\ TimeGate(s.mp[txHash], timeLastMempoolReq)
    THEN [ret |-> TRUE, sent |-> <<[tx |-> txHash, witness |-> witness]>>]
    ELSE [ret |-> FALSE, sent |-> <<>>]

\* what the callers pass
Filters == {NoFilter, {"A", "C"}}
FeeFilters == {0, 2}
ReqTimes == {0, GetTime(RelayTTL)}

NetRequestTxInventory(sendMempool, minFeeFilter, txFilter, toSend) ==
    /\ Becomes(NetRequestTxInventoryRes(State, sendMempool, minFeeFilter, txFilter,
                                        toSend).s)
    /\ UNCHANGED fTipChanged

NetRequestTxData(txHash, witness, timeLastMempoolReq) ==
    /\ NetRequestTxDataRes(State, txHash, witness, timeLastMempoolReq).ret \in BOOLEAN
    /\ UNCHANGED vars

\* the clock advances, by a microsecond or by the lifetime of a relay entry
Tick(d) ==
    /\ now + d <= RelayTTL + MaxSkew
    /\ (now % RelayTTL) + (d % RelayTTL) <= MaxSkew
    /\ now' = now + d
    /\ UNCHANGED <<mempool, mapOrphanTransactions, recentRejects,
                   hashRecentRejectsChainTip, chainTip, mapRelay, vRelayExpiration,
                   fTipChanged, call>>

\* ------------------------------------------------------------ environment

\* the chain component activates another tip: the transactions confirmed
\* there leave the mempool, those no longer confirmed come back to it
ActivateBestChain(tip) ==
    /\ tip # chainTip
    /\ chainTip' = tip
    /\ mempool' = LET back == Confirmed(chainTip) \ Confirmed(tip)
                      keep == DOMAIN mempool \ Confirmed(tip)
                  IN  [t \in keep \cup back |->
                         IF t \in keep THEN mempool[t] ELSE GetTime(now)]
    /\ fTipChanged' = TRUE
    /\ UNCHANGED <<mapOrphanTransactions, recentRejects, hashRecentRejectsChainTip,
                   mapRelay, vRelayExpiration, now, call>>

\* in-mempool descendants of the transactions of S, S included
RECURSIVE Descendants(_, _)
Descendants(mp, S) ==
    LET more == {c \in DOMAIN mp : \E op \in Vin(c) : op[1] \in S} \ S
    IN  IF more = {} THEN S ELSE Descendants(mp, S \cup more)

\* the mempool after it dropped an entry and what depends on it
Evicted(mp, t) == Restrict(mp, DOMAIN mp \ Descendants(mp, {t}))

\* the mempool drops an entry (expiry, size limit)
MempoolEvict(t) ==
    /\ t \in DOMAIN mempool
    /\ mempool' = Evicted(mempool, t)
    /\ UNCHANGED <<mapOrphanTransactions, recentRejects, hashRecentRejectsChainTip,
                   chainTip, mapRelay, vRelayExpiration, now, fTipChanged, call>>

\* ------------------------------------------ the loop of NetReceiveTxData

\* no call is in the loop
NoCall ==
    [pc |-> "idle", popped |-> <<>>,
     ls |-> [mp |-> <<>>, orph |-> <<>>, rej |-> {}, tip |-> NullHash, time |-> 0,
             ord |-> <<>>, vWorkQueue |-> <<>>, vEraseQueue |-> <<>>,
             setMisbehaving |-> {}, bc |-> <<>>, mis |-> <<>>, log |-> <<>>,
             rejIns |-> {}, corrupt |-> {}]]

\* lines 121-175: a relaying peer delivers a transaction that is not known
\* and that the mempool accepts; its outputs are the first work queue
EnterLoop(peer, tx, ord) ==
    LET ex == DoesTxExistRes(State, tx)
        ls == LoopStart(ex.s, tx, ord)
    IN  /\ call.pc = "idle"
        /\ ~ex.ret
        /\ AcceptToMemoryPool(mempool, chainTip, tx).ok
        /\ call' = [pc |-> "loop", popped |-> <<>>, ls |-> ls]
        /\ mempool' = ls.mp
        /\ recentRejects' = ex.s.rej
        /\ hashRecentRejectsChainTip' = ex.s.recTip
        /\ fTipChanged' = FALSE
        /\ UNCHANGED <<mapOrphanTransactions, chainTip, mapRelay, vRelayExpiration,
                       now>>

\* lines 176-236: one iteration of the while loop; the mempool and the
\* filter change at once, the orphans to erase are only marked
LoopIteration ==
    /\ call.pc = "loop"
    /\ call.ls.vWorkQueue # <<>>
    /\ LET ls == WorkQueueStep(call.ls)
       IN  /\ call' = [call EXCEPT !.ls = ls,
                                   !.popped = Append(@, Head(call.ls.vWorkQueue))]
           /\ mempool' = ls.mp
           /\ recentRejects' = ls.rej
    /\ UNCHANGED <<mapOrphanTransactions, hashRecentRejectsChainTip, chainTip,
                   mapRelay, vRelayExpiration, now, fTipChanged>>

\* lines 237-240: the queue is empty, the marked orphans are erased
LeaveLoop ==
    /\ call.pc = "loop"
    /\ call.ls.vWorkQueue = <<>>
    /\ mapOrphanTransactions' =
            EraseOrphans(mapOrphanTransactions, SeqToSet(call.ls.vEraseQueue))
    /\ call' = NoCall
    /\ UNCHANGED <<mempool, recentRejects, hashRecentRejectsChainTip, chainTip,
                   mapRelay, vRelayExpiration, now, fTipChanged>>

\* ------------------------------------------------------------------ Init

\* the component after InitializeForNet: an empty filter, no tip recorded
Init ==
    /\ mempool = <<>>
    /\ mapOrphanTransactions = <<>>
    /\ recentRejects = {}
    /\ hashRecentRejectsChainTip = NullHash
    /\ chainTip = "h0"
    /\ mapRelay = <<>>
    /\ vRelayExpiration = <<>>
    /\ now = 0
    /\ fTipChanged = FALSE
    /\ call = NoCall

\* The flags and the configuration decide whether the handler returns early
\* and what it sends, never which state a processed transaction leaves: one
\* relaying peer and one peer in violation of the protocol reach every state.
Relaying == [relaytx |-> TRUE, whitelist |-> FALSE, witness |-> TRUE,
             localWitness |-> TRUE]
BlocksOnly == [Relaying EXCEPT !.relaytx = FALSE]
DefaultArgs == [whitelistrelay |-> TRUE, whitelistforcerelay |-> TRUE]

\* The orders that differ in what some outpoint's orphans are met in: one
\* order for each way the sets of the orphan manager can hand them out.
AllPrevouts == UNION {Vin(t) : t \in TxIds}
Handout(orph, ord) ==
    [op \in AllPrevouts |-> FindOrphanTransactionsByPrev(orph, ord, op)]
Orders(orph) ==
    {CHOOSE ord \in Perms(DOMAIN orph) : Handout(orph, ord) = h :
        h \in {Handout(orph, ord) : ord \in Perms(DOMAIN orph)}}

\* Ingress at a fixed tip
Next ==
    \/ \E peer \in Peers, flags \in {Relaying, BlocksOnly}, tx \in TxIds,
          ord \in Orders(mapOrphanTransactions) :
            NetReceiveTxData(peer, flags, DefaultArgs, tx, ord)
    \/ \E txHash \in TxIds : DoesTxExist(txHash)
    \/ \E nodeId \in Peers : RemoveOrphanTxForNode(nodeId)
    \/ \E pblock \in Blocks : RemoveOrphanTxForBlock(pblock)
    \/ \E t \in TxIds : MempoolEvict(t)

Spec == Init /\ [][Next]_vars

\* Ingress while the chain moves
NextTip ==
    \/ Next
    \/ \E tip \in Tips : ActivateBestChain(tip)

SpecTip == Init /\ [][NextTip]_vars

\* Ingress from every kind of caller: any flags of the peer, any setting of
\* -whitelistrelay and -whitelistforcerelay
NextGate ==
    \/ \E flags \in PeerFlags, args \in Args, tx \in TxIds,
          ord \in Orders(mapOrphanTransactions) :
            NetReceiveTxData("p1", flags, args, tx, ord)
    \/ \E t \in TxIds : MempoolEvict(t)

SpecGate == Init /\ [][NextGate]_vars

\* Egress: transactions that the mempool accepts are delivered by a peer
\* that was asked for them, advertised and fetched while the clock runs
Pending == SUBSET {"A", "B", "C"}

NextRelay ==
    \/ \E tx \in {"A", "B", "C"}, ord \in Orders(mapOrphanTransactions) :
            /\ ~DoesTxExistRes(State, tx).ret
            /\ AcceptToMemoryPool(mempool, chainTip, tx).ok
            /\ NetReceiveTxData("p1", Relaying, DefaultArgs, tx, ord)
    \/ \E sendMempool \in BOOLEAN, minFeeFilter \in FeeFilters, txFilter \in Filters,
          toSend \in Pending :
            NetRequestTxInventory(sendMempool, minFeeFilter, txFilter, toSend)
    \/ \E txHash \in TxIds, witness \in BOOLEAN, timeLastMempoolReq \in ReqTimes :
            NetRequestTxData(txHash, witness, timeLastMempoolReq)
    \/ \E t \in TxIds : MempoolEvict(t)
    \/ \E d \in {1, RelayTTL} : Tick(d)

SpecRelay == Init /\ [][NextRelay]_vars

\* Egress rounds at one instant, fed in any order: the pending set can also
\* hold a txid that the mempool never accepts
PendingDrain == SUBSET {"A", "B", "C", "N"}

NextDrain ==
    \/ \E tx \in {"A", "B", "C"}, ord \in Orders(mapOrphanTransactions) :
            NetReceiveTxData("p1", Relaying, DefaultArgs, tx, ord)
    \/ \E sendMempool \in BOOLEAN, minFeeFilter \in FeeFilters, txFilter \in Filters,
          toSend \in PendingDrain :
            NetRequestTxInventory(sendMempool, minFeeFilter, txFilter, toSend)
    \/ \E t \in TxIds : MempoolEvict(t)

SpecDrain == Init /\ [][NextDrain]_vars

\* Ingress with the admitted calls followed through their loop: a call that
\* is not admitted stays one step, a call that is admitted enters the loop,
\* iterates and leaves it, and no other handler runs meanwhile (cs_main).
\* The handler is not cancellable: a call in the loop goes on.
NextOnTx ==
    \/ \E peer \in Peers, tx \in TxIds, ord \in Orders(mapOrphanTransactions) :
            /\ call.pc = "idle"
            /\ ~NetReceiveTxDataRes(State, peer, Relaying, DefaultArgs, tx, ord).accepted
            /\ NetReceiveTxData(peer, Relaying, DefaultArgs, tx, ord)
    \/ \E peer \in Peers, tx \in TxIds, ord \in Orders(mapOrphanTransactions) :
            EnterLoop(peer, tx, ord)
    \/ LoopIteration
    \/ LeaveLoop
    \/ \E t \in TxIds : call.pc = "idle" /\ MempoolEvict(t)

SpecOnTx ==
    Init /\ [][NextOnTx]_vars /\ WF_vars(LoopIteration) /\ WF_vars(LeaveLoop)

(***************************************************************************)
(* Properties                                                              *)
(***************************************************************************)

\* the states a call of NetReceiveTxData can leave
LeftStates(r) == {Left(r, pool) : pool \in r.pools}

\* C1: delivering the same transaction twice in a row, by the same peer with
\* the same flags and at the same tip, leaves the mempool, the orphan pool
\* and the rejects filter after the second call exactly as they were after
\* the first.
C1_Idempotent ==
    \A peer \in Peers, flags \in PeerFlags, args \in Args, tx \in TxIds,
       ord \in Orders(mapOrphanTransactions) :
        \A s1 \in LeftStates(NetReceiveTxDataRes(State, peer, flags, args, tx, ord)) :
            \A ord2 \in Orders(s1.orph) :
                \A s2 \in LeftStates(NetReceiveTxDataRes(s1, peer, flags, args, tx, ord2)) :
                    /\ s2.mp = s1.mp
                    /\ s2.orph = s1.orph
                    /\ s2.rej = s1.rej

\* C2: no branch of NetReceiveTxData inserts into the rejects filter the
\* txid of a transaction that carries a witness or whose validation state
\* in that call has the corruption-possible flag.
C2_NonMalleableRule ==
    \A peer \in Peers, flags \in PeerFlags, args \in Args, tx \in TxIds,
       ord \in Orders(mapOrphanTransactions) :
        LET r == NetReceiveTxDataRes(State, peer, flags, args, tx, ord)
        IN  \A t \in r.rejIns : ~HasWitness(t) /\ t \notin r.corrupt

\* C3: in one call of NetReceiveTxData a peer is punished for at most one
\* of its orphans, and every orphan of that peer met after the punishment
\* is skipped without being validated.
C3_OrphanFairness ==
    \A peer \in Peers, tx \in TxIds, ord \in Orders(mapOrphanTransactions) :
        LET r == NetReceiveTxDataRes(State, peer, Relaying, DefaultArgs, tx, ord)
        IN  /\ \A i, j \in 1..Len(r.mis) : i # j => r.mis[i][1] # r.mis[j][1]
            /\ \A i, j \in 1..Len(r.log) :
                 (i < j /\ r.log[i].ev = "misbehave" /\ r.log[j].peer = r.log[i].peer)
                    => r.log[j].ev = "skip"

\* a call punishes a peer and then meets another orphan of that peer
C3_Witness ==
    \E peer \in Peers, tx \in TxIds, ord \in Orders(mapOrphanTransactions) :
        LET r == NetReceiveTxDataRes(State, peer, Relaying, DefaultArgs, tx, ord)
        IN  \E i, j \in 1..Len(r.log) :
              /\ i < j
              /\ r.log[i].ev = "misbehave"
              /\ r.log[j].peer = r.log[i].peer
              /\ r.log[j].ev = "skip"

\* C4: the orphan pool never holds more than -maxorphantx entries, whatever
\* operation ran last; a call that parks an orphan into a full pool returns
\* normally and leaves a pool of at most that size, an entry having been
\* evicted.
C4_OrphanPoolBound ==
    /\ Cardinality(DOMAIN mapOrphanTransactions) <= MaxOrphanTx
    /\ \A peer \in Peers, tx \in TxIds, ord \in Orders(mapOrphanTransactions) :
        LET r == NetReceiveTxDataRes(State, peer, Relaying, DefaultArgs, tx, ord)
        IN  /\ r.ret
            /\ \A pool \in r.pools :
                 /\ Cardinality(DOMAIN pool) <= MaxOrphanTx
                 /\ (r.parked /\ Cardinality(DOMAIN mapOrphanTransactions) = MaxOrphanTx)
                      => (DOMAIN mapOrphanTransactions \cup {tx}) \ DOMAIN pool # {}

\* the pool is full and a call parks one more orphan
C4_Witness ==
    /\ Cardinality(DOMAIN mapOrphanTransactions) = MaxOrphanTx
    /\ \E peer \in Peers, tx \in TxIds, ord \in Orders(mapOrphanTransactions) :
        NetReceiveTxDataRes(State, peer, Relaying, DefaultArgs, tx, ord).parked

\* y is known to the rejects filter only
OnlyInRejects(y) ==
    /\ y \in recentRejects
    /\ y \notin DOMAIN mempool
    /\ y \notin DOMAIN mapOrphanTransactions
    /\ ~HaveCoinInCache(chainTip, <<y, 0>>)
    /\ ~HaveCoinInCache(chainTip, <<y, 1>>)

\* C5 as stated: after any change of the active tip, also one that returns
\* to an earlier hash, the first DoesTxExist(y) that follows returns false
\* for every y that the filter holds and nothing else knows; it clears the
\* filter and records the tip.
C5_TipChangeReset ==
    \A y \in TxIds :
        (fTipChanged /\ OnlyInRejects(y))
            => LET d == DoesTxExistRes(State, y)
               IN  ~d.ret /\ d.s.rej = {} /\ d.s.recTip = chainTip

\* C5: after a change of the active tip that leaves it different from the
\* tip recorded at the last reset, the first DoesTxExist(y) that follows
\* returns false for every y that the filter holds and nothing else knows;
\* it clears the filter and records the tip.
C5_TipChangeResetRecorded ==
    \A y \in TxIds :
        (fTipChanged /\ chainTip # hashRecentRejectsChainTip /\ OnlyInRejects(y))
            => LET d == DoesTxExistRes(State, y)
               IN  ~d.ret /\ d.s.rej = {} /\ d.s.recTip = chainTip

\* the tip moved away from the recorded one while the filter holds a txid
\* that nothing else knows
C5_Witness ==
    /\ fTipChanged
    /\ chainTip # hashRecentRejectsChainTip
    /\ \E y \in TxIds : OnlyInRejects(y)

\* the inputs of an egress round
InvInputs == [sendMempool : BOOLEAN, minFeeFilter : FeeFilters, txFilter : Filters,
              toSend : Pending]
InvRes(in) ==
    NetRequestTxInventoryRes(State, in.sendMempool, in.minFeeFilter, in.txFilter,
                             in.toSend)

QueueEntries(queue, t) == {i \in 1..Len(queue) : queue[i][2] = t}

\* C7: the txids bound in the relay map are those the expiration queue
\* references, each by exactly one entry; a round that publishes a txid the
\* map already holds adds no queue entry for it and leaves its expiry alone.
C7_RelayStructure ==
    /\ DOMAIN mapRelay = {vRelayExpiration[i][2] : i \in 1..Len(vRelayExpiration)}
    /\ \A t \in DOMAIN mapRelay : Cardinality(QueueEntries(vRelayExpiration, t)) = 1
    /\ \A in \in InvInputs :
        LET r == InvRes(in)
        IN  \A t \in SeqToSet(r.drained) \cap DOMAIN r.afterExpire.relay :
              /\ Cardinality(QueueEntries(r.s.queue, t)) = 1
              /\ \A i \in QueueEntries(r.s.queue, t), j \in QueueEntries(vRelayExpiration, t) :
                    r.s.queue[i][1] = vRelayExpiration[j][1]

\* a round publishes a txid that the map holds since an earlier time
C7_Witness ==
    \E in \in InvInputs :
        LET r == InvRes(in)
        IN  \E t \in SeqToSet(r.drained) \cap DOMAIN r.afterExpire.relay :
              \E j \in QueueEntries(vRelayExpiration, t) :
                  vRelayExpiration[j][1] < now + RelayTTL

\* the mempools a fetch can find after a round: nothing evicted, or an
\* entry evicted with what depends on it
MempoolsAfter(mp) == {mp} \cup {Evicted(mp, e) : e \in DOMAIN mp}

\* C8 as stated: for every transaction admitted by NetReceiveTxData and
\* advertised by NetRequestTxInventory, in the mempool dump or in the drain
\* of the pending set, the NetRequestTxData that follows with witness true
\* returns true and sends exactly that transaction, also when the mempool
\* evicted it in between.
C8_RoundTrip ==
    \A in \in InvInputs :
        LET r == InvRes(in)
        IN  \A t \in SeqToSet(r.haveSent), mp2 \in MempoolsAfter(mempool) :
              LET f == NetRequestTxDataRes([r.s EXCEPT !.mp = mp2], t, TRUE, GetTime(now))
              IN  f.ret /\ f.sent = <<[tx |-> t, witness |-> TRUE]>>

\* C8: for every transaction admitted by NetReceiveTxData and advertised by
\* the drain of the pending set, the NetRequestTxData that follows with
\* witness true returns true and sends exactly that transaction, also when
\* the mempool evicted it in between; a transaction advertised by the
\* mempool dump only is served exactly when the relay map holds it or the
\* mempool still holds it with a time not after timeLastMempoolReq.
C8_RoundTripDrained ==
    \A in \in InvInputs :
        LET r == InvRes(in)
        IN  \A t \in SeqToSet(r.haveSent), mp2 \in MempoolsAfter(mempool),
               timeLastMempoolReq \in ReqTimes :
              LET f == NetRequestTxDataRes([r.s EXCEPT !.mp = mp2], t, TRUE,
                                           timeLastMempoolReq)
              IN  /\ f.ret => f.sent = <<[tx |-> t, witness |-> TRUE]>>
                  /\ t \in SeqToSet(r.drained) => f.ret
                  /\ t \notin SeqToSet(r.drained) =>
                        (f.ret <=> \/ t \in DOMAIN r.s.relay
                                   \/ t \in DOMAIN mp2 /\ mp2[t] <= timeLastMempoolReq)

\* a drained transaction is evicted from the mempool and still served
C8_Witness ==
    \E in \in InvInputs :
        LET r == InvRes(in)
        IN  \E t \in SeqToSet(r.drained) \ DOMAIN mapRelay :
              /\ t \notin DOMAIN Evicted(mempool, t)
              /\ NetRequestTxDataRes([r.s EXCEPT !.mp = Evicted(mempool, t)], t, TRUE,
                                     0).ret

\* the peers a call punished
Punished(r) == {r.mis[i][1] : i \in 1..Len(r.mis)}

\* the orphans of the pool that a call admitting the transactions of S has
\* to admit with them: they spend an output of a member of S, the validator
\* accepts them once S is in the mempool, and their peer is not in bad
RECURSIVE Resolvable(_, _, _)
Resolvable(s, S, bad) ==
    LET mp == [t \in DOMAIN s.mp \cup S |-> 0]
        more == {o \in DOMAIN s.orph \ S :
                    /\ s.orph[o] \notin bad
                    /\ \E op \in Vin(o) : op[1] \in S
                    /\ AcceptToMemoryPool(mp, s.tip, o).ok}
    IN  IF more = {} THEN S ELSE Resolvable(s, S \cup more, bad)

\* C9: a call of NetReceiveTxData that admits a transaction validates, in
\* the same call, every parked orphan that spends an output of a transaction
\* admitted in the call and whose peer the call does not mark misbehaving;
\* every such orphan that is valid ends in the mempool, was broadcast and is
\* gone from the orphan pool, along chains of parked orphans of any length.
C9_OrphanChainResolution ==
    \A peer \in Peers, tx \in TxIds, ord \in Orders(mapOrphanTransactions) :
        LET r == NetReceiveTxDataRes(State, peer, Relaying, DefaultArgs, tx, ord)
        IN  r.accepted =>
              /\ \A o \in DOMAIN mapOrphanTransactions :
                    (/\ mapOrphanTransactions[o] \notin Punished(r)
                     /\ \E op \in Vin(o) : op[1] \in SeqToSet(r.bc))
                        => \E i \in 1..Len(r.log) :
                              r.log[i].ev = "validate" /\ r.log[i].tx = o
              /\ \A c \in Resolvable(FilterAfterTipCheck(State), {tx}, Punished(r)) :
                    /\ c \in DOMAIN r.s.mp
                    /\ c \in SeqToSet(r.bc)
                    /\ \A pool \in r.pools : c \notin DOMAIN pool

\* a call admits a transaction, its parked child and its parked grandchild
C9_Witness ==
    \E peer \in Peers, tx \in TxIds, ord \in Orders(mapOrphanTransactions) :
        LET r == NetReceiveTxDataRes(State, peer, Relaying, DefaultArgs, tx, ord)
        IN  /\ r.accepted
            /\ \E b, c \in DOMAIN mapOrphanTransactions :
                  /\ (\E op \in Vin(b) : op[1] = tx)
                  /\ (\E op \in Vin(c) : op[1] = b)
                  /\ {b, c} \subseteq Resolvable(FilterAfterTipCheck(State), {tx},
                                                 Punished(r))
                  /\ {b, c} \subseteq DOMAIN r.s.mp

\* the validator reports missing inputs for tx and the filter of the
\* current tip holds one of its parents
MissingWithRejectedParent(tx) ==
    /\ ~DoesTxExistRes(State, tx).ret
    /\ AcceptToMemoryPool(mempool, chainTip, tx).missing
    /\ chainTip = hashRecentRejectsChainTip
    /\ \E op \in Vin(tx) : op[1] \in recentRejects

\* C10: when the validator reports missing inputs for a delivered
\* transaction and the rejects filter of the current tip holds the txid of
\* one of its parents, NetReceiveTxData does not add it to the orphan pool,
\* inserts its txid into the rejects filter and calls neither
\* AskForTransaction nor AddTxInventoryKnown for any of its parents.
C10_RejectedParentShutsOrphan ==
    \A peer \in Peers, flags \in PeerFlags, args \in Args, tx \in TxIds :
        (~ViolatesProtocol(flags, args) /\ MissingWithRejectedParent(tx)) =>
            \A ord \in Orders(mapOrphanTransactions) :
                LET r == NetReceiveTxDataRes(State, peer, flags, args, tx, ord)
                IN  /\ ~r.parked
                    /\ r.pools = {mapOrphanTransactions}
                    /\ tx \notin DOMAIN mapOrphanTransactions
                    /\ tx \in r.rejIns
                    /\ tx \in r.s.rej
                    /\ r.asked = {}
                    /\ r.known = {}

\* a transaction with a rejected parent and missing inputs can be delivered
C10_Witness ==
    \E tx \in TxIds : MissingWithRejectedParent(tx)

\* how often hash was handed to BroadcastTransaction
Broadcasts(r, hash) == Cardinality({i \in 1..Len(r.bc) : r.bc[i] = hash})

\* the validator accepts the delivered transaction
Admits(flags, args, tx) ==
    /\ ~ViolatesProtocol(flags, args)
    /\ ~DoesTxExistRes(State, tx).ret
    /\ AcceptToMemoryPool(mempool, chainTip, tx).ok

\* C11: whenever NetReceiveTxData admits the delivered transaction to the
\* mempool, it broadcasts its txid exactly once in that call (also for a
\* whitelisted peer with -whitelistforcerelay), sets NF_NEWTRANSACTION,
\* sends no REJECT, does not insert the txid into the rejects filter and
\* does not set the peer's nMisbehavior.
C11_HappyAccept ==
    \A ord \in Orders(mapOrphanTransactions) :
        \A peer \in Peers, flags \in PeerFlags, args \in Args, tx \in TxIds :
            Admits(flags, args, tx) =>
                LET r == NetReceiveTxDataRes(State, peer, flags, args, tx, ord)
                IN  /\ r.accepted
                    /\ tx \in DOMAIN r.s.mp
                    /\ Broadcasts(r, tx) = 1
                    /\ r.newTx
                    /\ ~r.reject
                    /\ tx \notin r.rejIns
                    /\ r.nMisbehavior = 0

\* a whitelisted peer with forced relay delivers a transaction that is
\* admitted together with a parked orphan
C11_Witness ==
    \E peer \in Peers, flags \in PeerFlags, args \in Args, tx \in TxIds,
       ord \in Orders(mapOrphanTransactions) :
        /\ flags.whitelist /\ args.whitelistforcerelay
        /\ Admits(flags, args, tx)
        /\ Len(NetReceiveTxDataRes(State, peer, flags, args, tx, ord).bc) > 1

\* the validation state of a delivered transaction that is known already or
\* has its inputs
StateOf(tx) ==
    IF DoesTxExistRes(State, tx).ret THEN ValidState
    ELSE AcceptToMemoryPool(mempool, chainTip, tx)

\* the delivered transaction is processed, not admitted and not short of
\* inputs
KnownOrInvalid(flags, args, tx) ==
    /\ ~ViolatesProtocol(flags, args)
    /\ ~StateOf(tx).ok
    /\ ~StateOf(tx).missing

C13_AdmissionGate ==
    \A peer \in Peers, flags \in PeerFlags, args \in Args, tx \in TxIds,
       ord \in Orders(mapOrphanTransactions) :
        LET r == NetReceiveTxDataRes(State, peer, flags, args, tx, ord)
            on == NetReceiveTxDataRes(State, peer, [flags EXCEPT !.relaytx = TRUE],
                                      args, tx, ord)
        IN  IF ~flags.relaytx /\ (~flags.whitelist \/ ~args.whitelistrelay)
            THEN /\ r.s = State
                 /\ r.pools = {mapOrphanTransactions}
                 /\ r.bc = <<>> /\ r.mis = <<>>
                 /\ r.known = {} /\ r.asked = {}
                 /\ ~r.reject /\ ~r.newTx /\ r.nMisbehavior = 0
                 /\ r.ret
            ELSE /\ r.s.recTip = chainTip
                 /\ r.ret
                 /\ ~flags.relaytx => r = on

\* a transaction that would change the state is delivered by a peer that
\* does not relay, once with and once without the whitelist exemption
C13_Witness ==
    /\ recentRejects # {}
    /\ DOMAIN mapOrphanTransactions # {}
    /\ \E tx \in TxIds : Admits(Relaying, DefaultArgs, tx)

\* the inputs of an egress round whose pending set can hold an unknown txid
DrainInputs == [sendMempool : BOOLEAN, minFeeFilter : FeeFilters, txFilter : Filters,
                toSend : PendingDrain]

\* what is pending when the drain starts: the mempool dump has taken the
\* mempool's entries out
AtDrainStart(in) ==
    IF in.sendMempool THEN in.toSend \ DOMAIN mempool ELSE in.toSend

\* the reasons for which the drain drops a transaction
Dropped(in, t) ==
    \/ t \notin DOMAIN mempool
    \/ FeeRate(t) < in.minFeeFilter
    \/ (in.txFilter # NoFilter /\ t \notin in.txFilter)

\* C14: in one call of NetRequestTxInventory the drain of the pending set
\* advertises at most INVENTORY_BROADCAST_MAX transactions; every txid
\* pending when the drain starts is in the end appended to haveSent, or
\* dropped because it is not in the mempool, below the fee filter or
\* refused by the bloom filter, or still pending; none leaves the pending
\* set without having been examined.
C14_RelayCap ==
    \A in \in DrainInputs :
        LET r == InvRes(in)
            popped == SeqToSet(r.popped)
            drained == SeqToSet(r.drained)
        IN  /\ Len(r.drained) <= INVENTORY_BROADCAST_MAX
            /\ Cardinality(drained) = Len(r.drained)
            /\ Cardinality(popped) = Len(r.popped)
            /\ drained \subseteq popped
            /\ drained \subseteq SeqToSet(r.haveSent)
            /\ popped \subseteq AtDrainStart(in)
            /\ r.toSend = AtDrainStart(in) \ popped
            /\ \A t \in popped \ drained : Dropped(in, t)

\* the cap cuts a round short in which a transaction was dropped
C14_Witness ==
    \E in \in DrainInputs :
        LET r == InvRes(in)
        IN  /\ Len(r.drained) = INVENTORY_BROADCAST_MAX
            /\ Len(r.popped) > Len(r.drained)
            /\ r.toSend # {}

\* the entries of a sequence of INV messages, in order
RECURSIVE Flatten(_)
Flatten(msgs) == IF msgs = <<>> THEN <<>> ELSE Head(msgs) \o Flatten(Tail(msgs))

\* C15: in one call of NetRequestTxInventory every INV message carries at
\* least 1 and at most MAX_INV_SZ entries, every message but the last
\* carries exactly MAX_INV_SZ, and the entries of all messages are the
\* txids appended to haveSent in the call; for a mempool dump their number
\* is the number of mempool entries that pass the fee filter and the bloom
\* filter.
C15_InventoryBatching ==
    \A in \in DrainInputs :
        LET r == InvRes(in)
        IN  /\ \A i \in 1..Len(r.sent) :
                 /\ Len(r.sent[i]) >= 1
                 /\ Len(r.sent[i]) <= MAX_INV_SZ
                 /\ i < Len(r.sent) => Len(r.sent[i]) = MAX_INV_SZ
            /\ Flatten(r.sent) = r.haveSent
            /\ in.sendMempool =>
                 Len(r.haveSent) = Cardinality({t \in DOMAIN mempool : ~Dropped(in, t)})

\* a round sends a full INV message and a shorter last one
C15_Witness ==
    \E in \in DrainInputs :
        LET r == InvRes(in)
        IN  /\ Len(r.sent) >= 2
            /\ Len(r.sent[Len(r.sent)]) < MAX_INV_SZ

\* C16: NetRequestTxData sends a TX message and returns true if and only if
\* the txid is in the relay map, or in the mempool with a time not after
\* timeLastMempoolReq; a transaction that is in the mempool with a later
\* time and not in the relay map is not sent: the call returns false and
\* sends nothing.
C16_FetchTimestampGate ==
    \A txHash \in TxIds, witness \in BOOLEAN, timeLastMempoolReq \in ReqTimes :
        LET f == NetRequestTxDataRes(State, txHash, witness, timeLastMempoolReq)
            served == \/ txHash \in DOMAIN mapRelay
                      \/ /\ txHash \in DOMAIN mempool
                         /\ mempool[txHash] <= timeLastMempoolReq
        IN  /\ f.ret <=> served
            /\ f.sent = IF served THEN <<[tx |-> txHash, witness |-> witness]>> ELSE <<>>

\* the mempool holds a transaction that came after the peer's last mempool
\* request and that the relay map does not hold
C16_Witness ==
    \E txHash \in DOMAIN mempool \ DOMAIN mapRelay, timeLastMempoolReq \in ReqTimes :
        /\ mempool[txHash] > timeLastMempoolReq
        /\ ~NetRequestTxDataRes(State, txHash, TRUE, timeLastMempoolReq).ret

\* a is an in-mempool ancestor of b
IsAncestor(a, b) == a # b /\ a \in Ancestors(mempool, {b})

AnyBlocks == {NullBlock} \cup SUBSET TxIds
Consumed(pblock) == IF pblock = NullBlock THEN {} ELSE UNION {Vin(t) : t \in pblock}

\* C17: after RemoveOrphanTxForBlock the orphan pool holds no orphan with an
\* input that a transaction of the block consumes, every orphan that spends
\* none of these outpoints is still in the pool, and the call returns true
\* exactly when an orphan was selected for erasure (false for a null block).
C17_BlockEvictionHook ==
    \A pblock \in AnyBlocks :
        LET r == RemoveOrphanTxForBlockRes(State, pblock)
            hit == {o \in DOMAIN mapOrphanTransactions : Vin(o) \cap Consumed(pblock) # {}}
        IN  /\ DOMAIN r.s.orph = DOMAIN mapOrphanTransactions \ hit
            /\ \A o \in DOMAIN r.s.orph : r.s.orph[o] = mapOrphanTransactions[o]
            /\ r.ret <=> hit # {}
            /\ pblock = NullBlock => ~r.ret
            /\ [r.s EXCEPT !.orph = mapOrphanTransactions] = State

\* a block makes one orphan conflicting, without holding it, and leaves
\* another in the pool
C17_Witness ==
    \E pblock \in AnyBlocks :
        LET r == RemoveOrphanTxForBlockRes(State, pblock)
        IN  /\ r.ret
            /\ DOMAIN r.s.orph # {}
            /\ \E o \in DOMAIN mapOrphanTransactions \ DOMAIN r.s.orph : o \notin pblock

\* C18: the peer that delivers a transaction that is admitted is not
\* penalised for what the re-evaluation of the orphans yields: its
\* nMisbehavior is not set and no REJECT is sent to it in the call; only
\* the peer that sent an orphan found invalid with a DoS score above 0 is
\* scored, with that score.
C18_NoCounterDoS ==
    \A peer \in Peers, tx \in TxIds, ord \in Orders(mapOrphanTransactions) :
        LET r == NetReceiveTxDataRes(State, peer, Relaying, DefaultArgs, tx, ord)
            punished == {i \in 1..Len(r.log) : r.log[i].ev = "misbehave"}
        IN  r.accepted =>
              /\ r.nMisbehavior = 0
              /\ ~r.reject
              /\ Len(r.mis) = Cardinality(punished)
              /\ \A i \in 1..Len(r.mis) :
                    \E o \in DOMAIN mapOrphanTransactions :
                        /\ mapOrphanTransactions[o] = r.mis[i][1]
                        /\ Verdict(o).invalid
                        /\ Verdict(o).nDoS = r.mis[i][2]
                        /\ r.mis[i][2] > 0
                        /\ \E j \in punished : r.log[j].tx = o

\* a peer delivers a transaction that is admitted and makes another peer's
\* parked orphan invalid with a DoS score
C18_Witness ==
    \E peer \in Peers, tx \in TxIds, ord \in Orders(mapOrphanTransactions) :
        LET r == NetReceiveTxDataRes(State, peer, Relaying, DefaultArgs, tx, ord)
        IN  /\ r.accepted
            /\ \E i \in 1..Len(r.mis) : r.mis[i][1] # peer /\ r.mis[i][2] > 0

\* C20: no txid that a call of NetReceiveTxData admits to the mempool, the
\* delivered transaction or an orphan accepted from the work queue, is
\* inserted into the rejects filter in that call, also when the orphan
\* spends two outputs of the admitted parent and is met twice; each is
\* broadcast exactly once.
C20_AdmittedStayOutOfRejects ==
    \A peer \in Peers, tx \in TxIds, ord \in Orders(mapOrphanTransactions) :
        LET r == NetReceiveTxDataRes(State, peer, Relaying, DefaultArgs, tx, ord)
        IN  r.accepted =>
              \A t \in DOMAIN r.s.mp \ DOMAIN mempool :
                  /\ t \notin r.rejIns
                  /\ t \notin r.s.rej
                  /\ Broadcasts(r, t) = 1

\* how often x is in the sequence q
Occurrences(q, x) == Cardinality({i \in 1..Len(q) : q[i] = x})

\* every outpoint the call has put on its work queue so far
Enqueued == call.popped \o call.ls.vWorkQueue

\* a call in its loop: no transaction was accepted twice, no output was
\* queued twice, the orphan pool is the one the loop was entered with
C21_InLoop ==
    call.pc = "loop" =>
        /\ \A t \in TxIds : Occurrences(call.ls.bc, t) <= 1
        /\ \A t \in TxIds : \A i \in 1..NVout(t) :
                Occurrences(Enqueued, <<t, i - 1>>) =
                    IF t \in SeqToSet(call.ls.bc) THEN 1 ELSE 0
        /\ mapOrphanTransactions = call.ls.orph

\* the orphan pool changes in a call only in the step that leaves the loop,
\* with the work queue empty, by the erasure of the marked orphans
C21_PoolStep ==
    call.pc = "loop" =>
        \/ /\ call'.pc = "loop"
           /\ mapOrphanTransactions' = mapOrphanTransactions
        \/ /\ call'.pc = "idle"
           /\ call.ls.vWorkQueue = <<>>
           /\ DOMAIN mapOrphanTransactions' =
                  DOMAIN mapOrphanTransactions \ SeqToSet(call.ls.vEraseQueue)

\* C21: orphan resolution terminates: once a delivered transaction is
\* admitted the work queue of the call eventually is empty; in the call
\* each orphan is accepted at most once and its outputs are queued at most
\* once; the orphan pool is not modified while the queue is processed, the
\* marked orphans are erased only after the queue has drained.
C21_OrphanResolutionTerminates ==
    /\ []C21_InLoop
    /\ [][C21_PoolStep]_vars
    /\ (call.pc = "loop") ~> (call.pc = "loop" /\ call.ls.vWorkQueue = <<>>)

\* the queue of a call has drained after an orphan that spends two outputs
\* of its parent was accepted and met again; it is marked and still in the
\* pool
C21_Witness ==
    /\ call.pc = "loop"
    /\ call.ls.vWorkQueue = <<>>
    /\ \E o \in DOMAIN mapOrphanTransactions :
          /\ o \in SeqToSet(call.ls.bc)
          /\ o \in SeqToSet(call.ls.vEraseQueue)
          /\ Cardinality({i \in 1..Len(call.ls.log) :
                call.ls.log[i].ev = "validate" /\ call.ls.log[i].tx = o}) = 2

====
